---- MODULE Spec2Model ----
(***************************************************************************)
(* The authenticated-session request engine of the Kia UVO USA client      *)
(* (custom_components/kia_uvo/KiaUvoAPIUSA.py): login, the session guard   *)
(* (request_with_active_session), the response classifier                  *)
(* (request_with_logging), the vehicle operations and the action poller    *)
(* (check_action_status).                                                  *)
(*                                                                         *)
(* Callers run on worker threads.  One step of a thread is one read or     *)
(* write of a field of the shared Token, one HTTP exchange with the vendor *)
(* or one sleep; everything a thread does between two such points is       *)
(* local to it and is folded into the step.  The vendor is the             *)
(* environment: every answer it can give is drawn from a small set.        *)
(***************************************************************************)
EXTENDS Integers, Sequences, FiniteSets, TLC

VARIABLES
    heap,       \* the Token objects allocated so far; a reference is an index
    tok,        \* the reference the callers hold to the shared Token (0: none)
    issued,     \* number of sessions the vendor has issued
    granted,    \* the logins that succeeded: what each one obtained
    now,        \* logical clock in seconds, advanced by the sleeps
    self_device_id, \* self.device_id of the client instance
    th          \* per thread: program counter, locals and observations

vars == <<heap, tok, issued, granted, now, self_device_id, th>>

\* ---------------------------------------------------------------- bounds
MaxSessions == 2    \* sessions the vendor issues, from Init on, before it refuses sign-in
MaxCalls == 3       \* operations one sequential caller starts
MaxPolls == 2       \* polls of one command that are counted and recorded
MaxClock == 35      \* the poller's sleeps are observed up to this many seconds
MaxWaits == 1       \* times the caller lets a Token's validity pass between operations

\* ------------------------------------------------------ program constants
GraceSleep == 15
PollInterval == 10
TokenTTL == 3600

Threads == {1, 2}

\* ------------------------------------------------------------ the vendor
None == "None"
Unset == "unset"    \* a local that has not been assigned

SidOf(n) == "sid" \o ToString(n)

\* What the sign-in response can carry in its "sid" header.
SidHeaders(n) == {None, "", SidOf(n)}

\* The first entry of the vehicle list: the first car of the list, and the
\* key the vendor hands out for it, may differ from one login to the next;
\* enrollmentDate is optional.
VehicleSummaries ==
    { [nickName |-> "car1", vehicleIdentifier |-> "id1", vin |-> "vin1",
       vehicleKey |-> "key1", modelName |-> "model1", enrollmentDate |-> "date1"],
      [nickName |-> "car2", vehicleIdentifier |-> "id2", vin |-> "vin2",
       vehicleKey |-> "key2", modelName |-> "model2", enrollmentDate |-> None] }

\* The status block of a response envelope: the session-invalid block, and
\* blocks that differ from it in one field or in all of them.
Status(statusCode, errorType, errorCode) ==
    [statusCode |-> statusCode, errorType |-> errorType, errorCode |-> errorCode]
Statuses ==
    { Status(0, 0, 0), Status(0, 1, 1003), Status(1, 1, 1003), Status(1, 0, 1003),
      Status(1, 1, 1005), Status(2, 1, 1003), Status(2, 0, 0) }

\* Command handles and the payload of a command-status poll.
Xids == {"x1", "x2"}
SubChecks == {"a", "b"}
EmptyPayload == [k \in {} |-> 0]
Payload(a, b) == [k \in SubChecks |-> IF k = "a" THEN a ELSE b]
PollPayloads == {Payload(1, 0), Payload(0, 1), Payload(0, 0), EmptyPayload}

\* The sections of a cached-status body that a vehicle may not report, and
\* the bodies the vendor sends: the complete one and each with one section
\* left out.  A section stands for the data under it.
StatusSections == {"location", "tirePressure", "heatingAccessory"}
StatusBodies == {StatusSections} \cup {StatusSections \ {s} : s \in StatusSections}

\* How a request for the vehicle list can go wrong: no connection, a body
\* without payload/vehicleSummary (or a summary lacking a field), an empty list.
VehicleListFailures == {"conn", "malformed", "empty"}

Min(a, b) == IF a < b THEN a ELSE b

\* ------------------------------------------------------------- requests
\* A JSON body: "rest" stands for every field other than vinKey; vinKey is
\* the list under that key, <<>> when the body has no such key.
NoBody == [rest |-> None, vinKey |-> <<>>]
Body(rest, vinKey) == [rest |-> rest, vinKey |-> vinKey]

NoHeaders == [deviceid |-> None, sid |-> None, vinkey |-> None]

\* The device ids __init__ can draw.
DeviceIds == {"dev1", "dev2"}

\* api_headers drawing a new device id for the request.
api_headers_new_device(device) ==
    [deviceid |-> "dev3", sid |-> None, vinkey |-> None]

\* api_headers: the fixed headers (not modelled) and headers["deviceid"].
api_headers(device) ==
    [deviceid |-> device, sid |-> None, vinkey |-> None]
NoResponse == [status |-> [statusCode |-> -1, errorType |-> -1, errorCode |-> -1],
               Xid |-> None, payload |-> EmptyPayload, sections |-> {}]
NoSnapshot == [taken |-> FALSE]
NoVehicleData == [built |-> None]

\* One request as it went on the wire.
Wire(url, headers, body) ==
    [url |-> url, deviceid |-> headers.deviceid, sid |-> headers.sid,
     vinkey |-> headers.vinkey, body |-> body]

\* Of the requests a thread has sent since its guarded call (or its login)
\* began: those to url.
SentTo(r, url) == {i \in DOMAIN r.sent : r.sent[i].url = url}
Attempts(r) == Cardinality(SentTo(r, r.url))
Logins(r) == Cardinality(SentTo(r, "prof/authUser"))

\* ------------------------------------------------------------ the threads
T(t) == th[t]
Set(t, r) == th' = [th EXCEPT ![t] = r]

Fresh(budget) ==
    [pc |-> "idle", op |-> None, calls |-> 0, budget |-> budget,
     token |-> 0, url |-> None, method |-> None, json_body |-> NoBody,
     attempt |-> 0, headers |-> NoHeaders, session_id |-> Unset,
     new_token |-> 0, response |-> NoResponse, signal |-> None, result |-> None,
     sent |-> <<>>, pre |-> NoSnapshot, vehicle_data |-> NoVehicleData,
     xid |-> None, completed |-> FALSE, polls |-> 0, seen |-> <<>>, entered |-> 0,
     accepted |-> <<>>, graces |-> 0, invalidated |-> 0, relogins |-> 0]

\* The caller starts operation o with the Token it holds.
Begin(r, o) ==
    [Fresh(r.budget) EXCEPT !.op = o, !.calls = r.calls + 1, !.token = tok,
                            !.result = "running",
                            !.invalidated = r.invalidated, !.relogins = r.relogins]

CanBegin(t) ==
    /\ T(t).pc = "idle"
    /\ T(t).calls < T(t).budget

\* An exception leaves the operation; nothing in this client catches it.
Raise(r, err) == [r EXCEPT !.pc = "idle", !.result = err]
Return(r) == [r EXCEPT !.pc = "idle", !.result = "returned"]

\* ----------------------------------------------------------------- Token
\* Token.set(access_token, refresh_token, device_id, vehicle_name, vehicle_id,
\*           vehicle_regid, vehicle_model, vehicle_registration_date,
\*           valid_until, stamp) on a new Token.
TokenSet(access_token, refresh_token, device_id, vehicle_name, vehicle_id, vehicle_regid, vehicle_model, vehicle_registration_date, valid_until, stamp) ==
    [access_token |-> access_token, refresh_token |-> refresh_token,
     device_id |-> device_id, vehicle_name |-> vehicle_name,
     vehicle_id |-> vehicle_id, vehicle_regid |-> vehicle_regid,
     vehicle_model |-> vehicle_model,
     vehicle_registration_date |-> vehicle_registration_date,
     valid_until |-> valid_until, stamp |-> stamp]

\* ----------------------------------------------------------------- login
\* login() going on to the vehicle list whatever the sign-in response carries.
LoginSignInUnchecked(t) ==
    LET r == T(t)
        q == [r EXCEPT !.sent = Append(@, Wire("prof/authUser",
                                               api_headers(self_device_id),
                                               Body("userCredential", <<>>))),
                       !.relogins = IF r.op = "login" THEN @ ELSE @ + 1]
    IN  /\ r.pc = "login_sign_in"
        /\ \/ /\ Set(t, Raise(q, "ConnectionError"))
              /\ UNCHANGED issued
           \/ \E session_id \in (IF issued < MaxSessions
                                  THEN SidHeaders(issued + 1) ELSE {None, ""}) :
                 /\ Set(t, [q EXCEPT !.pc = "login_get_vehicles",
                                     !.session_id = session_id])
                 /\ issued' = IF session_id \in {None, ""} THEN issued ELSE issued + 1
        /\ UNCHANGED <<heap, tok, granted, now, self_device_id>>

\* login() refusing an absent sid header only, not an empty one.
LoginSignInNoneOnly(t) ==
    LET r == T(t)
        q == [r EXCEPT !.sent = Append(@, Wire("prof/authUser",
                                               api_headers(self_device_id),
                                               Body("userCredential", <<>>))),
                       !.relogins = IF r.op = "login" THEN @ ELSE @ + 1]
    IN  /\ r.pc = "login_sign_in"
        /\ \/ /\ Set(t, Raise(q, "ConnectionError"))
              /\ UNCHANGED issued
           \/ \E session_id \in (IF issued < MaxSessions
                                  THEN SidHeaders(issued + 1) ELSE {None, ""}) :
                 IF session_id = None
                 THEN /\ Set(t, Raise([q EXCEPT !.session_id = session_id],
                                      "Exception"))
                      /\ UNCHANGED issued
                 ELSE /\ Set(t, [q EXCEPT !.pc = "login_get_vehicles",
                                          !.session_id = session_id])
                      /\ issued' = IF session_id = "" THEN issued ELSE issued + 1
        /\ UNCHANGED <<heap, tok, granted, now, self_device_id>>

\* login(), first request: POST prof/authUser, then the test of the "sid"
\* response header.  A transport failure raises out of requests.post.
LoginSignIn(t) ==
    LET r == T(t)
        q == [r EXCEPT !.sent = Append(@, Wire("prof/authUser",
                                               api_headers(self_device_id),
                                               Body("userCredential", <<>>))),
                       !.relogins = IF r.op = "login" THEN @ ELSE @ + 1]
    IN  /\ r.pc = "login_sign_in"
        /\ \/ /\ Set(t, Raise(q, "ConnectionError"))
              /\ UNCHANGED issued
           \/ \E session_id \in (IF issued < MaxSessions
                                  THEN SidHeaders(issued + 1) ELSE {None, ""}) :
                 IF session_id \in {None, ""}
                 THEN /\ Set(t, Raise([q EXCEPT !.session_id = session_id],
                                      "Exception"))
                      /\ UNCHANGED issued
                 ELSE /\ Set(t, [q EXCEPT !.pc = "login_get_vehicles",
                                          !.session_id = session_id])
                      /\ issued' = issued + 1
        /\ UNCHANGED <<heap, tok, granted, now, self_device_id>>

\* login() stamping every Token with the same expiry, whenever it is made.
LoginTokenFixedExpiry(session_id, vehicle_summary, clock) ==
    TokenSet(session_id, None, vehicle_summary.vin, vehicle_summary.nickName,
             vehicle_summary.vehicleIdentifier, vehicle_summary.vehicleKey,
             vehicle_summary.modelName,
             IF vehicle_summary.enrollmentDate = None
                 THEN "missing" ELSE vehicle_summary.enrollmentDate,
             TokenTTL, "NoStamp")

\* The Token login() builds from the first vehicle summary.
LoginToken(session_id, vehicle_summary, clock) ==
    TokenSet(session_id, None, vehicle_summary.vin, vehicle_summary.nickName,
             vehicle_summary.vehicleIdentifier, vehicle_summary.vehicleKey,
             vehicle_summary.modelName,
             IF vehicle_summary.enrollmentDate = None
                 THEN "missing" ELSE vehicle_summary.enrollmentDate,
             clock + TokenTTL, "NoStamp")

\* Where login() returns to: its caller keeps the Token as the shared one,
\* the session guard goes on to copy from it.
LoginReturn(r, ref) ==
    IF r.op = "login"
    THEN Return([r EXCEPT !.new_token = ref])
    ELSE [r EXCEPT !.new_token = ref, !.pc = "set_access_token"]

\* login(), second request: GET ownr/gvl with the new session id, then the
\* Token built from vehicleSummary[0].
LoginGetVehicles(t) ==
    LET r == T(t)
        q == [r EXCEPT !.sent = Append(@, Wire("ownr/gvl",
                         [api_headers(self_device_id) EXCEPT !.sid = r.session_id],
                         NoBody))]
    IN  /\ r.pc = "login_get_vehicles"
        /\ \/ \E f \in VehicleListFailures :
                 /\ Set(t, Raise(q, CASE f = "conn" -> "ConnectionError"
                                      [] f = "malformed" -> "KeyError"
                                      [] f = "empty" -> "IndexError"))
                 /\ UNCHANGED <<heap, tok, granted>>
           \/ \E vehicle_summary \in VehicleSummaries :
                 LET token == LoginToken(r.session_id, vehicle_summary, now)
                     ref == Len(heap) + 1
                 IN  /\ heap' = Append(heap, token)
                     /\ granted' = Append(granted, token)
                     /\ Set(t, LoginReturn(q, ref))
                     /\ tok' = IF r.op = "login" THEN ref ELSE tok
        /\ UNCHANGED <<issued, now, self_device_id>>

\* The caller logs in and keeps the Token it gets.
Login(t) ==
    /\ CanBegin(t)
    /\ Set(t, [Begin(T(t), "login") EXCEPT !.pc = "login_sign_in"])
    /\ UNCHANGED <<heap, tok, issued, granted, now, self_device_id>>

\* ------------------------------------------------------- the action poller
\* all(...) written as any(...)
AnyZero(payload) == \E k \in DOMAIN payload : payload[k] = 0

AllZero(payload) == \A k \in DOMAIN payload : payload[k] = 0

\* check_action_status, after a poll came back: completed is recomputed and
\* the loop either ends or goes to its next sleep.
CheckActionStatusPolled(r) ==
    LET completed == AllZero(r.response.payload)
        q == [r EXCEPT !.completed = completed,
                       !.seen = IF Len(@) < MaxPolls
                                THEN Append(@, r.response.payload) ELSE @]
    IN  IF completed THEN Return(q)
        ELSE [q EXCEPT !.pc = "interval", !.response = NoResponse, !.signal = None]

\* A command hands the Xid response header to check_action_status.
Commands == {"start_climate", "stop_climate", "start_charge", "stop_charge"}

CommandAccepted(r) ==
    IF r.response.Xid = None
    THEN Raise(r, "KeyError")
    ELSE [r EXCEPT !.xid = r.response.Xid, !.pc = "grace",
                   !.response = NoResponse, !.signal = None]

\* ------------------------------------------------------ the guarded request
\* request_with_logging: what the wrapper does with the status block.
\* The classifier, with the errorType test left out.
request_with_logging_no_type(status) ==
    IF status.statusCode = 0 THEN "return"
    ELSE IF status.statusCode = 1 /\ status.errorCode = 1003
         THEN "AuthError"
         ELSE "RequestException"

request_with_logging(status) ==
    IF status.statusCode = 0 THEN "return"
    ELSE IF /\ status.statusCode = 1
            /\ status.errorType = 1
            /\ status.errorCode = 1003
         THEN "AuthError"
         ELSE "RequestException"

\* The guard looking at the Token's validity first and logging in when it
\* has passed.
GuardedCheckingExpiry(r, method, url, json_body) ==
    [r EXCEPT !.pc = IF now > heap[r.token].valid_until
                         THEN "login_sign_in" ELSE "headers_sid",
              !.attempt = 1, !.method = method,
              !.url = url, !.json_body = json_body, !.sent = <<>>,
              !.headers = NoHeaders, !.response = NoResponse, !.signal = None,
              !.session_id = Unset, !.new_token = 0,
              !.pre = [taken |-> TRUE, token |-> heap[r.token], body |-> json_body,
                       at |-> now]]

\* Entry of post/get_request_with_logging_and_active_session(token=, url=,
\* json_body=): first attempt.
Guarded(r, method, url, json_body) ==
    [r EXCEPT !.pc = "headers_sid", !.attempt = 1, !.method = method,
              !.url = url, !.json_body = json_body, !.sent = <<>>,
              !.headers = NoHeaders, !.response = NoResponse, !.signal = None,
              !.session_id = Unset, !.new_token = 0,
              !.pre = [taken |-> TRUE, token |-> heap[r.token], body |-> json_body,
                       at |-> now]]

\* authed_api_headers: headers["sid"] = token.access_token
AuthedApiHeadersSid(t) ==
    LET r == T(t)
    IN  /\ r.pc = "headers_sid"
        /\ Set(t, [r EXCEPT !.headers = [api_headers(self_device_id) EXCEPT
                                             !.sid = heap[r.token].access_token],
                            !.pc = "headers_vinkey"])
        /\ UNCHANGED <<heap, tok, issued, granted, now, self_device_id>>

\* authed_api_headers: headers["vinkey"] = token.vehicle_regid
AuthedApiHeadersVinkey(t) ==
    LET r == T(t)
    IN  /\ r.pc = "headers_vinkey"
        /\ Set(t, [r EXCEPT !.headers.vinkey = heap[r.token].vehicle_regid,
                            !.pc = IF r.op = "lock_action" THEN "lock_call" ELSE "send"])
        /\ UNCHANGED <<heap, tok, issued, granted, now, self_device_id>>

\* The handles the vendor may put in the Xid header of its answer: any, to
\* a command; one, to the request for a fresh status, which starts a command
\* on the vehicle as well.
Handles(r) ==
    IF r.op \in Commands /\ r.xid = None THEN Xids
    ELSE IF r.op = "update_vehicle_status" THEN {"x1"}
    ELSE {}

\* What the vendor can answer to request r: any status block; a command
\* handle where a command is accepted; a payload where a poll is answered;
\* a status body where the cached status is returned (the body of an error
\* envelope is never read).
Answers(r) ==
    UNION { { [status |-> s, Xid |-> x, payload |-> p, sections |-> b] :
                x \in {None} \cup Handles(r),
                p \in (IF r.xid # None THEN PollPayloads ELSE {EmptyPayload}),
                b \in (IF r.op = "get_cached_vehicle_status" /\ s.statusCode = 0
                           THEN StatusBodies ELSE {{}}) } :
            s \in Statuses }

\* get_cached_vehicle_status after its request.  body[key]: the data under
\* a section, KeyError where the body has no such section.
Subscript(sections, key) == IF key \in sections THEN key ELSE "KeyError"

\* The record the function builds, subscript by subscript.
VehicleData(sections) ==
    [built |-> "vehicle_data",
     vehicleLocation |-> Subscript(sections, "location"),
     tirePressureLamp |-> Subscript(sections, "tirePressure"),
     sideBackWindowHeat |-> Subscript(sections, "heatingAccessory"),
     sideMirrorHeat |-> Subscript(sections, "heatingAccessory"),
     steerWheelHeat |-> Subscript(sections, "heatingAccessory")]

\* The first subscript that fails raises out of the function.
GetCachedVehicleStatusNormalize(r) ==
    LET vehicle_data == VehicleData(r.response.sections)
    IN  IF \E field \in DOMAIN vehicle_data : vehicle_data[field] = "KeyError"
        THEN Raise(r, "KeyError")
        ELSE Return([r EXCEPT !.vehicle_data = vehicle_data])

\* update_vehicle_status awaiting its request like a vehicle command.
ReturnedAwaitingUpdate(r) ==
    IF r.xid # None THEN CheckActionStatusPolled(r)
    ELSE IF r.op \in Commands \cup {"update_vehicle_status"} THEN CommandAccepted(r)
    ELSE IF r.op = "get_cached_vehicle_status" THEN GetCachedVehicleStatusNormalize(r)
    ELSE Return(r)

\* The response of a guarded request goes back to the function that made it.
Returned(r) ==
    IF r.xid # None THEN CheckActionStatusPolled(r)
    ELSE IF r.op \in Commands THEN CommandAccepted(r)
    ELSE IF r.op = "get_cached_vehicle_status" THEN GetCachedVehicleStatusNormalize(r)
    ELSE Return(r)

\* The guard retrying as long as the session is invalid.
request_with_active_session_loop(r, outcome) ==
    IF outcome = "return" THEN Returned(r)
    ELSE IF outcome = "AuthError"
         THEN [r EXCEPT !.pc = "login_sign_in"]
         ELSE Raise(r, outcome)

\* The guard without its except branch.
request_with_active_session_no_retry(r, outcome) ==
    IF outcome = "return" THEN Returned(r) ELSE Raise(r, outcome)

\* The guard catching RequestException, the base class of AuthError.
request_with_active_session_catch_all(r, outcome) ==
    IF outcome = "return" THEN Returned(r)
    ELSE IF outcome \in {"AuthError", "RequestException"} /\ r.attempt = 1
         THEN [r EXCEPT !.pc = "login_sign_in"]
         ELSE Raise(r, outcome)

\* request_with_active_session around request_with_logging, for the outcome
\* of one attempt: AuthError on the first attempt goes to login(); on the
\* retry, and for every other error, the exception leaves the guard.
request_with_active_session(r, outcome) ==
    IF outcome = "return" THEN Returned(r)
    ELSE IF outcome = "AuthError" /\ r.attempt = 1
         THEN [r EXCEPT !.pc = "login_sign_in"]
         ELSE Raise(r, outcome)

\* The request is a vehicle command's own (not a poll) and the vendor
\* accepts it.
AcceptsCommand(r, outcome) ==
    r.op \in Commands \cup {"lock_action"} /\ r.xid = None /\ outcome = "return"

\* requests.post / requests.get with the headers built, and the wrappers
\* around it.
Send(t) ==
    LET r == T(t)
        q == [r EXCEPT !.sent = Append(@, Wire(r.url, r.headers, r.json_body))]
    IN  /\ r.pc = "send"
        /\ \/ Set(t, Raise(q, "ConnectionError"))
           \/ \E response \in Answers(r) :
                 LET outcome == request_with_logging(response.status)
                 IN  Set(t, request_with_active_session(
                                [q EXCEPT !.response = response, !.signal = outcome,
                                          !.accepted = IF AcceptsCommand(r, outcome)
                                                       THEN Append(@, response.Xid)
                                                       ELSE @,
                                          !.invalidated =
                                              IF /\ r.attempt = 1
                                                 /\ response.status = Status(1, 1, 1003)
                                              THEN @ + 1 ELSE @],
                                outcome))
        /\ UNCHANGED <<heap, tok, issued, granted, now, self_device_id>>

\* The guard rebinding its local name to the new Token instead of writing
\* through the caller's reference.
GuardRebindToken(t) ==
    LET r == T(t)
    IN  /\ r.pc = "set_access_token"
        /\ Set(t, [r EXCEPT !.token = r.new_token, !.pc = "set_vehicle_regid"])
        /\ UNCHANGED <<heap, tok, issued, granted, now, self_device_id>>

\* The guard's except branch after login(): token.access_token = ...
GuardSetAccessToken(t) ==
    LET r == T(t)
    IN  /\ r.pc = "set_access_token"
        /\ heap' = [heap EXCEPT ![r.token].access_token = heap[r.new_token].access_token]
        /\ Set(t, [r EXCEPT !.pc = "set_vehicle_regid"])
        /\ UNCHANGED <<tok, issued, granted, now, self_device_id>>

\* token.vehicle_regid = new_token.vehicle_regid
GuardSetVehicleRegid(t) ==
    LET r == T(t)
    IN  /\ r.pc = "set_vehicle_regid"
        /\ heap' = [heap EXCEPT ![r.token].vehicle_regid = heap[r.new_token].vehicle_regid]
        /\ Set(t, [r EXCEPT !.pc = "set_valid_until"])
        /\ UNCHANGED <<tok, issued, granted, now, self_device_id>>

\* token.valid_until = new_token.valid_until
GuardSetValidUntil(t) ==
    LET r == T(t)
    IN  /\ r.pc = "set_valid_until"
        /\ heap' = [heap EXCEPT ![r.token].valid_until = heap[r.new_token].valid_until]
        /\ Set(t, [r EXCEPT !.pc = "rewrite_body"])
        /\ UNCHANGED <<tok, issued, granted, now, self_device_id>>

\* The guard setting vinKey in whatever body the request has.
RewriteBodyAlways(json_body, vehicle_regid) ==
    [json_body EXCEPT !.vinKey = <<vehicle_regid>>]

\* The retry sent with the body as it was.
RewriteBodyStale(json_body, vehicle_regid) == json_body

\* The body of the retry: vinKey, where the body has one, is set from the
\* Token; then func(*args, **kwargs) once more.
RewriteBody(json_body, vehicle_regid) ==
    IF json_body # NoBody /\ json_body.vinKey # <<>>
    THEN [json_body EXCEPT !.vinKey = <<vehicle_regid>>]
    ELSE json_body

\* The retry starting the operation's wait over instead of resending the
\* one request.
GuardRetryRestart(t) ==
    LET r == T(t)
    IN  /\ r.pc = "rewrite_body"
        /\ Set(t, [r EXCEPT !.json_body = RewriteBody(@, heap[r.token].vehicle_regid),
                            !.attempt = 2, !.headers = NoHeaders,
                            !.response = NoResponse, !.signal = None,
                            !.pc = IF r.xid # None THEN "grace" ELSE "headers_sid"])
        /\ UNCHANGED <<heap, tok, issued, granted, now, self_device_id>>

GuardRetry(t) ==
    LET r == T(t)
    IN  /\ r.pc = "rewrite_body"
        /\ Set(t, [r EXCEPT !.json_body = RewriteBody(@, heap[r.token].vehicle_regid),
                            !.attempt = 2, !.headers = NoHeaders,
                            !.response = NoResponse, !.signal = None,
                            !.pc = "headers_sid"])
        /\ UNCHANGED <<heap, tok, issued, granted, now, self_device_id>>

\* ------------------------------------------------------------- operations
HasToken == tok # 0

\* get_cached_vehicle_status: the body names the vehicle by token.vehicle_regid.
GetCachedVehicleStatus(t) ==
    /\ CanBegin(t) /\ HasToken
    /\ Set(t, Guarded(Begin(T(t), "get_cached_vehicle_status"), "post", "cmm/gvi",
                      Body("vehicleConfigReq,vehicleInfoReq",
                           <<heap[tok].vehicle_regid>>)))
    /\ UNCHANGED <<heap, tok, issued, granted, now, self_device_id>>

\* update_vehicle_status: one guarded request, nothing after it.
UpdateVehicleStatus(t) ==
    /\ CanBegin(t) /\ HasToken
    /\ Set(t, Guarded(Begin(T(t), "update_vehicle_status"), "post", "rems/rvs",
                      Body("requestType", <<>>)))
    /\ UNCHANGED <<heap, tok, issued, granted, now, self_device_id>>

StartClimate(t) ==
    /\ CanBegin(t) /\ HasToken
    /\ Set(t, Guarded(Begin(T(t), "start_climate"), "post", "rems/start",
                      Body("remoteClimate", <<>>)))
    /\ UNCHANGED <<heap, tok, issued, granted, now, self_device_id>>

StopClimate(t) ==
    /\ CanBegin(t) /\ HasToken
    /\ Set(t, Guarded(Begin(T(t), "stop_climate"), "get", "rems/stop", NoBody))
    /\ UNCHANGED <<heap, tok, issued, granted, now, self_device_id>>

StartCharge(t) ==
    /\ CanBegin(t) /\ HasToken
    /\ Set(t, Guarded(Begin(T(t), "start_charge"), "post", "evc/charge",
                      Body("chargeRatio", <<>>)))
    /\ UNCHANGED <<heap, tok, issued, granted, now, self_device_id>>

StopCharge(t) ==
    /\ CanBegin(t) /\ HasToken
    /\ Set(t, Guarded(Begin(T(t), "stop_charge"), "get", "evc/cancel", NoBody))
    /\ UNCHANGED <<heap, tok, issued, granted, now, self_device_id>>

\* lock_action builds the authed headers itself and passes them on as
\* headers=, a keyword the guarded get request does not take.
LockAction(t) ==
    /\ CanBegin(t) /\ HasToken
    /\ \E action \in {"close", "open"} :
         Set(t, [Begin(T(t), "lock_action") EXCEPT
                    !.pc = "headers_sid", !.method = "get",
                    !.url = IF action = "close" THEN "rems/door/lock"
                                                ELSE "rems/door/unlock"])
    /\ UNCHANGED <<heap, tok, issued, granted, now, self_device_id>>

LockActionCall(t) ==
    /\ T(t).pc = "lock_call"
    /\ Set(t, Raise(T(t), "TypeError"))
    /\ UNCHANGED <<heap, tok, issued, granted, now, self_device_id>>

\* check_action_status(token, xid), called on its own.
CheckActionStatus(t) ==
    /\ CanBegin(t) /\ HasToken
    /\ \E xid \in Xids :
         Set(t, [Begin(T(t), "check_action_status") EXCEPT !.xid = xid, !.pc = "grace"])
    /\ UNCHANGED <<heap, tok, issued, granted, now, self_device_id>>

\* The poller going to its loop without the initial sleep.
CheckActionStatusNoGrace(t) ==
    LET r == T(t)
    IN  /\ r.pc = "grace"
        /\ Set(t, [r EXCEPT !.pc = "interval", !.completed = FALSE, !.entered = now])
        /\ UNCHANGED <<heap, tok, issued, granted, now, self_device_id>>

\* time.sleep(15); completed = False
CheckActionStatusGrace(t) ==
    LET r == T(t)
    IN  /\ r.pc = "grace"
        /\ now' = Min(now + GraceSleep, MaxClock)
        /\ Set(t, [r EXCEPT !.pc = "interval", !.completed = FALSE, !.entered = now,
                            !.graces = Min(@ + 1, 2)])
        /\ UNCHANGED <<heap, tok, issued, granted, self_device_id>>

\* One turn of the loop up to its request: time.sleep(10), the body {xid},
\* the guarded post.
CheckActionStatusPoll(t) ==
    LET r == T(t)
    IN  /\ r.pc = "interval"
        /\ now' = Min(now + PollInterval, MaxClock)
        /\ Set(t, Guarded([r EXCEPT !.polls = Min(@ + 1, MaxPolls)],
                          "post", "cmm/gts", Body("xid=" \o r.xid, <<>>)))
        /\ UNCHANGED <<heap, tok, issued, granted, self_device_id>>

\* ---------------------------------------------------------- specification
\* The steps inside login() and inside a guarded request.
LoginStep(t) == LoginSignIn(t) \/ LoginGetVehicles(t)

GuardStep(t) ==
    \/ AuthedApiHeadersSid(t) \/ AuthedApiHeadersVinkey(t) \/ Send(t)
    \/ GuardSetAccessToken(t) \/ GuardSetVehicleRegid(t) \/ GuardSetValidUntil(t)
    \/ GuardRetry(t)

PollerStep(t) == CheckActionStatusGrace(t) \/ CheckActionStatusPoll(t)

\* After construction: no Token yet.  One caller logs in and then reads and
\* refreshes the vehicle status, one operation after the other.
Init ==
    /\ heap = <<>>
    /\ tok = 0
    /\ issued = 0
    /\ granted = <<>>
    /\ now = 0
    /\ self_device_id \in DeviceIds
    /\ th = [t \in Threads |-> Fresh(IF t = 1 THEN MaxCalls ELSE 0)]

\* Between two operations the caller lets more than the validity of a Token
\* pass.
Wait(t) ==
    /\ CanBegin(t) /\ HasToken
    /\ now < MaxWaits * (TokenTTL + 1)
    /\ now' = now + TokenTTL + 1
    /\ UNCHANGED <<heap, tok, issued, granted, self_device_id, th>>

Next ==
    \E t \in Threads :
        \/ Login(t) \/ GetCachedVehicleStatus(t) \/ UpdateVehicleStatus(t)
        \/ Wait(t)
        \/ LoginStep(t) \/ GuardStep(t)

Spec == Init /\ [][Next]_vars

\* The state after a first login, as login() leaves it; n of the sessions
\* the vendor issues are counted as used.
LoggedIn(n) ==
    /\ \E vehicle_summary \in VehicleSummaries :
         /\ heap = <<LoginToken(SidOf(n), vehicle_summary, 0)>>
         /\ granted = heap
    /\ tok = 1
    /\ issued = n
    /\ now = 0

\* One caller, logged in for car1, sends one vehicle command, awaits one
\* command handle or reads the cached status.
CmdInit ==
    /\ LoggedIn(1)
    /\ heap[1].vehicle_name = "car1"
    /\ self_device_id \in DeviceIds
    /\ th = [t \in Threads |-> Fresh(IF t = 1 THEN 1 ELSE 0)]

CmdStep(t) ==
        \/ StartClimate(t) \/ StopClimate(t) \/ StartCharge(t) \/ StopCharge(t)
        \/ LockAction(t) \/ LockActionCall(t) \/ CheckActionStatus(t)
        \/ GetCachedVehicleStatus(t)
        \/ PollerStep(t) \/ LoginStep(t) \/ GuardStep(t)

CmdNext == \E t \in Threads : CmdStep(t)

CmdSpec == CmdInit /\ [][CmdNext]_vars

\* A worker thread that can take a step eventually takes one.
FairCmdSpec == CmdSpec /\ \A t \in Threads : WF_vars(CmdStep(t))

\* Two workers, each running one operation on the shared Token.
ConcInit ==
    /\ LoggedIn(0)
    /\ self_device_id = "dev1"
    /\ th = [t \in Threads |-> Fresh(1)]

ConcNext ==
    \E t \in Threads :
        \/ GetCachedVehicleStatus(t) \/ UpdateVehicleStatus(t)
        \/ LoginStep(t) \/ GuardStep(t)

ConcSpec == ConcInit /\ [][ConcNext]_vars

\* ------------------------------------------------------------ properties
SessionInvalid(status) == status = Status(1, 1, 1003)
Last(seq) == seq[Len(seq)]
Idle(r) == r.pc = "idle"

\* The guarded request gave its response to the function that made it: the
\* operation returned, or get_cached_vehicle_status went on to read the body
\* and raised there.
GuardReturned(r) ==
    \/ r.result = "returned"
    \/ /\ r.op = "get_cached_vehicle_status" /\ r.result = "KeyError"
       /\ r.response.status.statusCode = 0

\* C1: re-authentication happens at most once per guarded call: a call never
\* sends its request more than twice nor logs in more than once, and a call
\* whose retry is answered session-invalid too ends there, after exactly two
\* attempts and one login, with AuthError raised to the caller.
C1_ReauthAtMostOnce ==
    \A t \in Threads :
        LET r == T(t)
        IN  /\ Attempts(r) <= 2
            /\ Logins(r) <= 1
            /\ (r.attempt = 2 /\ Idle(r) /\ SessionInvalid(r.response.status))
                   => /\ r.result = "AuthError"
                      /\ Attempts(r) = 2
                      /\ Logins(r) = 1

C1_Witness ==
    \E t \in Threads :
        /\ Idle(T(t)) /\ T(t).result = "AuthError"
        /\ Attempts(T(t)) = 2 /\ Logins(T(t)) = 1

\* C2: the retry after a re-login carries the refreshed Token: its sid and
\* vinkey headers are the new login's, and a body that named the vehicle by
\* the Token's old registration id names it by the new one.
C2_RetryCarriesRefreshedToken ==
    \A t \in Threads :
        LET r == T(t)
        IN  (r.attempt = 2 /\ Attempts(r) = 2) =>
                LET retry == Last(r.sent)
                    new_token == heap[r.new_token]
                IN  /\ retry.sid = new_token.access_token
                    /\ retry.vinkey = new_token.vehicle_regid
                    /\ (r.pre.body.vinKey = <<r.pre.token.vehicle_regid>>
                           => retry.body.vinKey = <<new_token.vehicle_regid>>)

C2_Witness ==
    \E t \in Threads :
        LET r == T(t)
        IN  /\ r.attempt = 2 /\ Attempts(r) = 2
            /\ r.pre.body.vinKey = <<r.pre.token.vehicle_regid>>
            /\ r.pre.token.vehicle_regid # heap[r.new_token].vehicle_regid
            /\ Last(r.sent).body.vinKey = <<heap[r.new_token].vehicle_regid>>

\* C3: a guard re-auth refreshes the caller's Token in place: once the guard
\* has copied, the object the caller holds (the one passed in, not the one
\* login() returned) has the new login's session id and registration id, and
\* every request sent with it afterwards carries the latest login's credentials.
C3_TokenRefreshedInPlace ==
    \A t \in Threads :
        LET r == T(t)
        IN  /\ r.attempt = 2 =>
                /\ r.token = tok
                /\ r.token # r.new_token
                /\ heap[tok].access_token = heap[r.new_token].access_token
                /\ heap[tok].vehicle_regid = heap[r.new_token].vehicle_regid
            /\ r.pc = "send" =>
                /\ r.headers.sid = Last(granted).access_token
                /\ r.headers.vinkey = Last(granted).vehicle_regid

\* A later call, made with the Token of the first login after a guard
\* re-auth in an earlier call, about to go out with the new session id.
C3_Witness ==
    \E t \in Threads :
        LET r == T(t)
        IN  /\ r.pc = "send" /\ r.attempt = 1
            /\ r.token = 1 /\ Len(granted) = 2
            /\ r.headers.sid = granted[2].access_token
            /\ r.headers.sid # granted[1].access_token

\* C4: session-invalid is recovered transparently: a retry answered with
\* status code 0 gives the caller the retry's response and no error, and
\* AuthError reaches the caller only from a retry answered session-invalid.
C4_TransparentRecovery ==
    \A t \in Threads :
        LET r == T(t)
        IN  /\ (r.attempt = 2 /\ Idle(r) /\ r.response.status.statusCode = 0)
                   => GuardReturned(r)
            /\ r.result = "AuthError"
                   => (r.attempt = 2 /\ SessionInvalid(r.response.status))

C4_Witness ==
    \E t \in Threads :
        /\ T(t).attempt = 2 /\ Idle(T(t)) /\ T(t).result = "returned"
        /\ T(t).response.status.statusCode = 0

\* C5: the classifier is total and exact: status code 0 returns the response,
\* (1, 1, 1003) signals AuthError, every other status block signals
\* RequestException, which is what the caller gets.
C5_Classification ==
    \A t \in Threads :
        LET r == T(t)
            status == r.response.status
        IN  r.response # NoResponse =>
                IF status.statusCode = 0
                THEN r.signal = "return" /\ GuardReturned(r)
                ELSE IF status.statusCode = 1 /\ status.errorType = 1
                        /\ status.errorCode = 1003
                THEN r.signal = "AuthError" /\ r.result # "RequestException"
                ELSE /\ r.signal = "RequestException"
                     /\ r.result = "RequestException"

C5_Witness ==
    \E t \in Threads :
        /\ T(t).response.status = Status(1, 0, 1003)
        /\ T(t).result = "RequestException"

\* C6: the guard recovers from session-invalid only: a first attempt that
\* fails with RequestException or at the transport is the only attempt; no
\* login follows, the Token and the body are as they were, and that error is
\* what the caller gets.
C6_OnlySessionInvalidRecovered ==
    \A t \in Threads :
        LET r == T(t)
        IN  (Idle(r) /\ r.attempt = 1 /\ ~GuardReturned(r)
                     /\ r.signal # "AuthError") =>
                /\ Attempts(r) = 1
                /\ Logins(r) = 0
                /\ heap[r.token] = r.pre.token
                /\ r.json_body = r.pre.body
                /\ r.result = IF r.signal = "RequestException"
                                  THEN "RequestException" ELSE "ConnectionError"

C6_Witness ==
    /\ \E t \in Threads :
        /\ Idle(T(t)) /\ T(t).attempt = 1 /\ T(t).result = "RequestException"
        /\ Attempts(T(t)) = 1 /\ T(t).pre.body.vinKey # <<>>

\* C7: login fails fast on a missing session id: when the sign-in response has
\* no (or an empty) sid header, login() raises there; the sign-in request is
\* the last one sent, no vehicle list is asked for and no Token is made.
C7_LoginFailsFast ==
    \A t \in Threads :
        LET r == T(t)
        IN  r.session_id \in {None, ""} =>
                /\ Idle(r)
                /\ r.result = "Exception"
                /\ Last(r.sent).url = "prof/authUser"
                /\ SentTo(r, "ownr/gvl") = {}
                /\ r.new_token = 0

C7_Witness ==
    \E t \in Threads :
        /\ T(t).session_id = None /\ T(t).result = "Exception"
        /\ T(t).op = "login"

InPoller(r) == r.xid # None
EverySubCheckZero(payload) == \A k \in DOMAIN payload : payload[k] = 0

\* C8: the poller declares completion exactly when a poll's payload has every
\* sub-check at 0: it returns only on such a payload, with completed true, and
\* never polls again after one; on {a:1,b:0} then {a:0,b:0} it is still
\* polling after the first and returns after the second of exactly two polls.

C8_CompletionOnAllZero ==
    \A t \in Threads :
        LET r == T(t)
        IN  InPoller(r) =>
                /\ (Idle(r) /\ r.result = "returned")
                       => (r.completed /\ EverySubCheckZero(r.response.payload))
                /\ r.completed => (Idle(r) /\ r.result = "returned")
                /\ \A i \in DOMAIN r.seen :
                       EverySubCheckZero(r.seen[i])
                           => (i = Len(r.seen) /\ r.completed /\ Idle(r))
                /\ r.seen = <<Payload(1, 0)>> => ~r.completed
                /\ r.seen = <<Payload(1, 0), Payload(0, 0)>>
                       => (r.polls = 2 /\ r.completed /\ r.result = "returned")

C8_Witness ==
    \E t \in Threads :
        /\ T(t).seen = <<Payload(1, 0), Payload(0, 0)>>
        /\ T(t).polls = 2 /\ T(t).completed /\ T(t).result = "returned"

\* C9: the poller terminates whatever the vendor does: once entered,
\* check_action_status eventually ends.
C9_PollerTerminates ==
    \A t \in Threads : (T(t).pc = "grace") ~> Idle(T(t))

FromOneLogin(sid, regid) ==
    \E i \in DOMAIN granted :
        /\ granted[i].access_token = sid
        /\ granted[i].vehicle_regid = regid

\* C10: re-auth is atomic for the users of a shared Token: every guarded
\* request carries the session id and the registration id of one and the same
\* login, and when both operations have ended the Token's session id,
\* registration id and validity are those of a single login.

C10_ReauthAtomic ==
    /\ \A t \in Threads : \A i \in DOMAIN T(t).sent :
           LET request == T(t).sent[i]
           IN  request.url \notin {"prof/authUser", "ownr/gvl"}
                   => FromOneLogin(request.sid, request.vinkey)
    /\ (\A t \in Threads : Idle(T(t)) /\ T(t).calls = T(t).budget)
           => \E i \in DOMAIN granted :
                  /\ heap[tok].access_token = granted[i].access_token
                  /\ heap[tok].vehicle_regid = granted[i].vehicle_regid
                  /\ heap[tok].valid_until = granted[i].valid_until

\* The first attempt of the guarded call thread t is in, or has just left.
FirstAttempt(r) == r.sent[1]
Relogged(r) == r.attempt >= 1 /\ Logins(r) >= 1

\* C11: re-auth is mutually exclusive: two concurrent guarded calls whose first
\* attempts carried the same stale session, both answered session-invalid,
\* cause one login between them, never one login each.
C11_SingleLoginPerStaleSession ==
    \A t1, t2 \in Threads :
        (/\ t1 # t2
         /\ Relogged(T(t1)) /\ Relogged(T(t2))
         /\ FirstAttempt(T(t1)).sid = FirstAttempt(T(t2)).sid)
            => Logins(T(t1)) + Logins(T(t2)) <= 1

VehicleCommands == Commands \cup {"lock_action"}

\* C12: every vehicle command goes through the session guard to the action
\* poller: a command that has ended has sent its request with the authed
\* headers (it got a handle, or its request is the one that failed), and a
\* command whose first poll was answered with every sub-check at 0 has polled
\* once and reports success; so does the lock command.
C12_CommandsReachPoller ==
    \A t \in Threads :
        LET r == T(t)
        IN  (r.op \in VehicleCommands /\ Idle(r)) =>
                /\ r.xid # None \/ SentTo(r, r.url) # {}
                /\ r.seen = <<Payload(0, 0)>>
                       => (r.polls = 1 /\ r.result = "returned")

\* C13: status normalization does not fail on absent optional data: when the
\* cached-status request is answered with status code 0, whatever optional
\* section the body lacks, get_cached_vehicle_status returns a record of the
\* usual shape.
C13_NormalizationTotal ==
    \A t \in Threads :
        LET r == T(t)
        IN  (/\ r.op = "get_cached_vehicle_status" /\ Idle(r)
             /\ r.response.status.statusCode = 0) =>
                /\ r.result = "returned"
                /\ r.vehicle_data.built # None
                /\ DOMAIN r.vehicle_data = DOMAIN VehicleData(StatusSections)

LoginUrls == {"prof/authUser", "ownr/gvl"}

\* Every field of token is set, and set from one sign-in and one vehicle
\* summary.
FullyPopulated(token) ==
    /\ \E n \in 0..(MaxSessions + 1) : token.access_token = SidOf(n)
    /\ \E vehicle_summary \in VehicleSummaries :
          /\ token.vehicle_regid = vehicle_summary.vehicleKey
          /\ token.device_id = vehicle_summary.vin
          /\ token.vehicle_id = vehicle_summary.vehicleIdentifier
          /\ token.vehicle_name = vehicle_summary.nickName
          /\ token.vehicle_model = vehicle_summary.modelName
          /\ token.vehicle_registration_date \in
                 {vehicle_summary.enrollmentDate, "missing"} \ {None}
    /\ token.valid_until \in Nat
    /\ token.stamp = "NoStamp"

\* login() has just returned to the guard: no time has passed since.
LoginJustReturned(r) == r.pc = "set_access_token"

\* C14: a login either fails and returns no Token, or returns a fully
\* populated Token, all of it from that login, valid until one hour after the
\* login; no other Token is ever made.
C14_LoginAllOrNothing ==
    /\ Len(heap) = Len(granted)
    /\ \A i \in DOMAIN granted : FullyPopulated(granted[i])
    /\ \A t \in Threads :
          LET r == T(t)
          IN  /\ r.new_token # 0 =>
                    /\ heap[r.new_token] = granted[r.new_token]
                    /\ heap[r.new_token].access_token = r.session_id
              /\ LoginJustReturned(r) =>
                    /\ r.new_token = Len(heap)
                    /\ heap[r.new_token].valid_until = now + TokenTTL
              /\ (Idle(r) /\ r.sent # <<>> /\ Last(r.sent).url \in LoginUrls) =>
                    /\ r.new_token = 0
                    /\ r.result \in {"Exception", "ConnectionError",
                                     "KeyError", "IndexError"}

\* A re-login made after the poller's sleeps, for a vehicle without
\* enrollment date.
C14_Witness ==
    \E t \in Threads :
        LET r == T(t)
        IN  /\ LoginJustReturned(r) /\ now > 0
            /\ heap[r.new_token].valid_until = now + TokenTTL
            /\ heap[r.new_token].vehicle_registration_date = "missing"

\* The earliest the k-th poll can go out, on the clock as far as it is observed.
EarliestPoll(r, k) == Min(r.entered + GraceSleep + PollInterval * k, MaxClock)

\* C15: the poller sleeps the grace period and then one poll interval before
\* every poll: the k-th poll of a command is never out before 15 + 10*k
\* seconds after the poller was entered, and a command that completes on its
\* first poll has taken at least 25 seconds.
C15_PollTiming ==
    \A t \in Threads :
        LET r == T(t)
        IN  /\ (InPoller(r) /\ r.polls >= 1) => now >= EarliestPoll(r, r.polls)
            /\ (InPoller(r) /\ r.url = "cmm/gts" /\ r.sent # <<>>)
                   => now >= EarliestPoll(r, 1)
            /\ r.completed => now >= EarliestPoll(r, 1)

C15_Witness ==
    \E t \in Threads :
        LET r == T(t)
        IN  /\ r.op = "start_climate" /\ r.completed /\ r.polls = 1
            /\ now = r.entered + GraceSleep + PollInterval

PollBody(xid) == Body("xid=" \o xid, <<>>)

\* C16: one command handle, one poll sequence: within one invocation the
\* vendor accepts the command at most once, the poller is entered only with
\* the handle of that accepted response and sleeps its grace period once,
\* every poll, retried after a re-auth or not, carries that handle, and a
\* command that was not accepted is never polled.
C16_OneHandleOnePollSequence ==
    \A t \in Threads :
        LET r == T(t)
        IN  r.op \in Commands =>
                /\ Len(r.accepted) <= 1
                /\ InPoller(r) => r.accepted = <<r.xid>>
                /\ r.accepted = <<>> =>
                       /\ r.polls = 0 /\ r.graces = 0
                       /\ r.pc \notin {"grace", "interval"}
                       /\ SentTo(r, "cmm/gts") = {}
                /\ r.graces <= 1
                /\ \A i \in SentTo(r, "cmm/gts") :
                       r.sent[i].body = PollBody(r.accepted[1])

\* A poll retried after a re-auth in the middle of polling.
C16_Witness ==
    \E t \in Threads :
        LET r == T(t)
        IN  /\ r.op = "stop_charge" /\ r.accepted = <<"x2">>
            /\ r.attempt = 2 /\ Cardinality(SentTo(r, "cmm/gts")) = 2
            /\ r.polls = 2 /\ r.graces = 1

\* C17: update_vehicle_status is fire-and-forget: it sends its one request,
\* at most twice, and returns when the vendor accepts it, whatever handle the
\* answer carries; it never enters the poller, sleeps or asks for a command's
\* status.
C17_UpdateFireAndForget ==
    \A t \in Threads :
        LET r == T(t)
        IN  r.op = "update_vehicle_status" =>
                /\ ~InPoller(r)
                /\ r.pc \notin {"grace", "interval"}
                /\ r.polls = 0 /\ r.graces = 0
                /\ \A i \in DOMAIN r.sent :
                       r.sent[i].url \in {"rems/rvs"} \cup LoginUrls
                /\ Cardinality(SentTo(r, "rems/rvs")) <= 2
                /\ (Idle(r) /\ r.signal = "return") => r.result = "returned"

C17_Witness ==
    \E t \in Threads :
        LET r == T(t)
        IN  /\ r.op = "update_vehicle_status" /\ Idle(r) /\ r.result = "returned"
            /\ r.attempt = 2 /\ r.response.Xid = "x1"

\* C18: the device id is fixed for the life of the client: no step changes
\* it, and every request the client sends (sign-in, vehicle list, guarded
\* request, retry after re-auth, poll) carries it.
C18_DeviceIdFixed ==
    /\ [](\A t \in Threads :
            /\ \A i \in DOMAIN T(t).sent : T(t).sent[i].deviceid = self_device_id
            /\ T(t).pc = "send" => T(t).headers.deviceid = self_device_id)
    /\ [][self_device_id' = self_device_id]_vars

\* A poll retried after a re-login: four requests of three kinds.
C18_Witness ==
    \E t \in Threads :
        LET r == T(t)
        IN  /\ self_device_id = "dev2" /\ r.url = "cmm/gts" /\ r.attempt = 2
            /\ Len(r.sent) = 4 /\ Logins(r) = 1
            /\ \A i \in DOMAIN r.sent : r.sent[i].deviceid = "dev2"

VehicleFields ==
    {"device_id", "vehicle_id", "vehicle_name", "vehicle_model",
     "vehicle_registration_date"}

\* C19: after a guard re-auth the caller's Token equals, field for field, the
\* Token the re-login returned: its session id, registration id and validity,
\* and the VIN, id, nickname, model and registration date of the vehicle.
C19_TokenEqualsRelogin ==
    \A t \in Threads :
        LET r == T(t)
        IN  r.attempt = 2 =>
                \A f \in {"access_token", "vehicle_regid", "valid_until"}
                            \cup VehicleFields :
                    heap[r.token][f] = heap[r.new_token][f]

LoginErrors == {"Exception", "ConnectionError", "KeyError", "IndexError"}

\* The guarded call of r was answered session-invalid and has ended without
\* a retry: the re-login raised.
ReloginFailed(r) == Idle(r) /\ r.attempt = 1 /\ r.signal = "AuthError"

\* C20: a failed re-login changes nothing: when the first attempt is answered
\* session-invalid and login() then fails, at sign-in (no connection, no or an
\* empty session id) or at the vehicle list, the caller's Token and the
\* request body are as before the call, the request is not sent again and
\* the caller gets the error login() raised.
C20_FailedReloginChangesNothing ==
    \A t \in Threads :
        LET r == T(t)
        IN  /\ ReloginFailed(r) =>
                /\ heap[r.token] = r.pre.token
                /\ r.json_body = r.pre.body
                /\ Attempts(r) = 1 /\ Logins(r) = 1
                /\ Last(r.sent).url \in LoginUrls
                /\ r.new_token = 0
                /\ r.result \in LoginErrors
                /\ r.result = "Exception" <=> r.session_id \in {None, ""}
                /\ SentTo(r, "ownr/gvl") = {} =>
                       r.result \in {"Exception", "ConnectionError"}
            /\ (r.attempt >= 1 /\ r.session_id \in {None, ""}) => ReloginFailed(r)

\* The re-login found the vehicle list empty; the body named the vehicle.
C20_Witness ==
    \E t \in Threads :
        LET r == T(t)
        IN  /\ ReloginFailed(r) /\ r.result = "IndexError"
            /\ r.pre.body.vinKey # <<>> /\ r.json_body = r.pre.body

\* The two attempts of a guarded call that was retried, as they went out.
Retried(r) == r.attempt = 2 /\ Attempts(r) = 2
FirstSent(r) == r.sent[1]

\* C21: the guard rewrites the body only where it must: the retry goes to
\* the same url; a body without vinKey (the poll's {xid}, the climate and
\* charge bodies) and the absent body of a get request are resent as they
\* were; in a body with vinKey everything but vinKey is as it was.
C21_BodyRewrittenOnlyWhereNeeded ==
    \A t \in Threads :
        LET r == T(t)
        IN  /\ r.attempt >= 1 => r.json_body.rest = r.pre.body.rest
            /\ Retried(r) =>
                  LET first == FirstSent(r)
                      retry == Last(r.sent)
                  IN  /\ first.body = r.pre.body
                      /\ retry.url = first.url
                      /\ retry.body.rest = first.body.rest
                      /\ first.body.vinKey = <<>> => retry.body = first.body
                      /\ first.body = NoBody => retry.body = NoBody

\* A poll resent after a re-login that found another vehicle.
C21_Witness ==
    \E t \in Threads :
        LET r == T(t)
        IN  /\ Retried(r) /\ r.url = "cmm/gts"
            /\ FirstSent(r).body = PollBody("x1")
            /\ Last(r.sent).body = PollBody("x1")
            /\ heap[r.token].vehicle_regid # r.pre.token.vehicle_regid

\* The call of r was made with a Token whose validity had passed.
Expired(r) == r.pre.taken /\ r.pre.at > r.pre.token.valid_until

\* C22: the guard logs in on demand only: whenever the caller is between
\* operations, the guard has logged in as many times as calls had their first
\* attempt answered session-invalid, and never before such an answer; the
\* first attempt of every call carries the credentials of the Token as the
\* call found it, also when its validity has passed.
C22_LoginOnDemandOnly ==
    \A t \in Threads :
        LET r == T(t)
        IN  /\ r.relogins <= r.invalidated
            /\ r.invalidated <= r.relogins + 1
            /\ Idle(r) => r.relogins = r.invalidated
            /\ (r.attempt >= 1 /\ r.sent # <<>>) =>
                  /\ FirstSent(r).url = r.url
                  /\ FirstSent(r).sid = r.pre.token.access_token
                  /\ FirstSent(r).vinkey = r.pre.token.vehicle_regid

\* A call with an expired Token that the vendor accepted, after an earlier
\* call that was answered session-invalid.
C22_Witness ==
    \E t \in Threads :
        LET r == T(t)
        IN  /\ Idle(r) /\ r.result = "returned" /\ r.attempt = 1
            /\ Expired(r) /\ Logins(r) = 0
            /\ r.relogins = 1 /\ r.invalidated = 1

====
